---- MODULE Spec2Model ----
(***************************************************************************)
(* A model of to_video: the window partitioner (divide), tile construction *)
(* (Chunk::new), the layout builder (BigImgBuilder) and the frame-to-video *)
(* pipeline (BigImg::run, combain) of src/src/swiping_img and              *)
(* src/src/slides.                                                         *)
(*                                                                         *)
(* Unsigned arithmetic.  The program computes in u32 and usize.  A         *)
(* subtraction a - b with a < b panics when the build checks overflow (the *)
(* debug profile) and wraps to 2^w - (b - a) when it does not (the release *)
(* profile).  Every quantity of the model is far below 2^31, so a wrapped  *)
(* value is written as the negative number a - b, which stands for         *)
(* 2^w + (a - b): a value above every index and length of the model.       *)
(* usize is taken to be 64 bits wide.                                      *)
(***************************************************************************)
EXTENDS Integers, Sequences, FiniteSets, TLC

VARIABLES
    overflow_checks,  \* the build profile: TRUE = overflow panics, FALSE = wraps
    d_pc,             \* divide as a function: "args" | "returned"
    d_variant,        \* which divide was called: "BigImg" | "slides"
    d_len,            \* its arguments: chunks.len() / slides.len()
    d_step,           \*   self.step / config.step
    d_overlap,        \*   self.overlap / config.overlap
    d_ret,            \* what it returned: [panic, windows]
    c_pc,             \* Chunk::new as a function: "args" | "returned"
    c_exists,         \* the paths for which Path::exists() is true
    c_args,           \* its arguments: [pic_path, text_up, text_down]
    c_ret,            \* what it returned: [ok, kind, value]
    f_pc,             \* a rendering function as a function: "args" | "returned"
    f_fn,             \* which one: build, combain_chunk, combain_slides, draw_data
    f_tiles,          \* its tile list / frame
    f_cfg,            \* the BigImg it reads
    f_ret,            \* what it returned: [ret, panic]
    g_pc,             \* a drawing operation as a function: "args" | "returned"
    g_op,             \* which one: line, filled_circle, .., polygon, filled_rect
    g_canvas,         \* the canvas dimensions <<width, height>>
    g_geom,           \* its geometry: [pts, r1, r2]
    g_points,         \* the grid points BresenhamLineIter emitted (line only)
    g_calls,          \* the draw_pixel calls made, in order
    g_panic,          \* whether the operation panicked
    t_pc,             \* draw_text_center_mut's scale: "args" | "returned"
    t_rect,           \* the target rect's <<width, height>>
    t_raw,            \* the raw text block <<width, height>> at max_scale
    t_scale,          \* the resolved scale as a multiple of max_scale: [num, den]
    p_pc,             \* the program's position: builder, build, run steps
    variant,          \* "BigImg" (swiping_img) | "slides" | "none"
    chunks,           \* the tile sequence handed to the builder / to run
    builder,          \* the BigImgBuilder's fields
    build_ret,        \* what build returned
    si,               \* the BigImg (or the slides VideoConfig) that run reads
    frames,           \* run: the windows divide returned
    index,            \* run: the loop index
    results,          \* run: the clip list
    log,              \* run: every render, save and encoder step, in order
    manifest,         \* combain: the lines written to list.txt
    concat_input,     \* combain: the clip list the concat step was given
    rm_attempted,     \* combain: the deletions attempted, in order
    rm_failed,        \* combain: whether some deletion failed
    encoder,          \* the latest encoder invocation: [status, ret]
    crops,            \* run: the crop_imm calls made for the cover and the ending
    scrolls,          \* run: the scroll clips the encoder was asked for
    run_ret           \* what run returned

dvars == <<d_pc, d_variant, d_len, d_step, d_overlap, d_ret>>
cvars == <<c_pc, c_exists, c_args, c_ret>>
fvars == <<f_pc, f_fn, f_tiles, f_cfg, f_ret>>
gvars == <<g_pc, g_op, g_canvas, g_geom, g_points, g_calls, g_panic>>
tvars == <<t_pc, t_rect, t_raw, t_scale>>
bvars == <<variant, chunks, builder, build_ret, si>>
rvars == <<frames, index, results, log, manifest, concat_input, rm_attempted,
           rm_failed, encoder, crops, scrolls, run_ret>>
pvars == <<p_pc, bvars, rvars>>
vars == <<overflow_checks, dvars, cvars, fvars, gvars, tvars, pvars>>

(***************************************************************************)
(* Bounds of the model.                                                    *)
(***************************************************************************)
MaxLen == 10
MaxStep == 4
MaxOverlap == 3
MaxTiles == 12

Min(a, b) == IF a <= b THEN a ELSE b

(***************************************************************************)
(* Result<T>: Ok(value) or Err(kind); `value` is the empty sequence when   *)
(* nothing is returned.                                                    *)
(***************************************************************************)
Ok(v) == [ok |-> TRUE, kind |-> "none", value |-> <<v>>]
Err(kind) == [ok |-> FALSE, kind |-> kind, value |-> <<>>]
NoResult == [ok |-> FALSE, kind |-> "not called", value |-> <<>>]

(***************************************************************************)
(* Chunk::new                                                              *)
(***************************************************************************)
PicPaths == {"a.png", "b.png", "c.png"}
CaptionLists == {<<>>, <<"name">>, <<"date", "way">>}

Chunk(pic_path, text_up, text_down) ==
    [pic_path |-> pic_path, text_up |-> text_up, text_down |-> text_down]

\* if !pic_path.exists() { return Err(IoError(NotFound)) }  Ok(Chunk { .. })
Chunk_new_NoCheck(pic_path, text_up, text_down, exists) ==
    Ok(Chunk(pic_path, text_up, text_down))
Chunk_new(pic_path, text_up, text_down, exists) ==
    IF ~exists
    THEN Err("IoError(NotFound)")
    ELSE Ok(Chunk(pic_path, text_up, text_down))

ChunkIdle ==
    /\ c_pc = "idle"
    /\ c_exists = {}
    /\ c_args = Chunk("a.png", <<>>, <<>>)
    /\ c_ret = NoResult

ChunkInit ==
    /\ c_pc = "args"
    /\ c_exists \in SUBSET PicPaths
    /\ c_args \in {Chunk(p, u, d) : p \in PicPaths, u \in CaptionLists, d \in CaptionLists}
    /\ c_ret = NoResult

CallChunkNew ==
    /\ c_pc = "args"
    /\ c_pc' = "returned"
    /\ c_ret' = Chunk_new(c_args.pic_path, c_args.text_up, c_args.text_down,
                          c_args.pic_path \in c_exists)
    /\ UNCHANGED <<c_exists, c_args>>

(***************************************************************************)
(* divide: (0..len - overlap).step_by(step - overlap)                      *)
(*             .map(|i| &chunks[i..(i + step).min(len)]).collect()         *)
(***************************************************************************)
NoWindows == [panic |-> FALSE, windows |-> <<>>]
Panicked == [panic |-> TRUE, windows |-> <<>>]

\* The exclusive end of the range of window starts, `len - overlap`.
RangeEnd_NoOverlap(len, overlap) == len
RangeEnd(len, overlap) == len - overlap

\* The stride of the window starts, `step - overlap`.
Stride_NoOverlap(step, overlap) == step
Stride(step, overlap) == step - overlap

\* The exclusive end of the window that starts at i, `(i + step).min(len)`.
WindowEnd_NoClamp(i, step, len) == i + step
WindowEnd(i, step, len) == Min(i + step, len)

\* i < len - overlap; a wrapped range end lies above every start.
InRange(i, len, overlap) ==
    IF RangeEnd(len, overlap) < 0
    THEN TRUE
    ELSE i < RangeEnd(len, overlap)

\* The iteration of the range from start i on.  Slicing chunks[i..e] panics
\* when i > e, which is when i > len.  A wrapped stride puts the next start at
\* 2^32 - (overlap - step): inside the range only when the range end wrapped
\* too, and then beyond len.
RECURSIVE Collect(_, _, _, _)
Collect(i, len, step, overlap) ==
    IF ~InRange(i, len, overlap) THEN NoWindows
    ELSE IF i > len THEN Panicked
    ELSE LET w == [start |-> i, end |-> WindowEnd(i, step, len)]
             rest == IF Stride(step, overlap) < 0
                     THEN [panic |-> len < overlap, windows |-> <<>>]
                     ELSE Collect(i + Stride(step, overlap), len, step, overlap)
         IN  [panic |-> rest.panic,
              windows |-> IF rest.panic THEN <<>> ELSE <<w>> \o rest.windows]

\* BigImg::divide.  `len - overlap` and `step - overlap` panic on underflow
\* when overflow is checked; step_by panics on a stride of 0 in every build.
divide(len, step, overlap, checks) ==
    IF checks /\ (len < overlap \/ step < overlap) THEN Panicked
    ELSE IF Stride(step, overlap) = 0 THEN Panicked
    ELSE Collect(0, len, step, overlap)

\* slides::divide: the same expression over config.step and config.overlap.
slides_divide(len, step, overlap, checks) ==
    IF checks /\ (len < overlap \/ step < overlap) THEN Panicked
    ELSE IF Stride(step, overlap) = 0 THEN Panicked
    ELSE Collect(0, len, step, overlap)

DivideIdle ==
    /\ d_pc = "idle"
    /\ d_variant = "none"
    /\ d_len = 0
    /\ d_step = 0
    /\ d_overlap = 0
    /\ d_ret = NoWindows

(***************************************************************************)
(* BigImgBuilder: new, the setters, build.                                 *)
(***************************************************************************)
\* BigImgBuilder::new: the default fields.
BigImgBuilder_new ==
    [screen |-> <<1920, 1080>>, step |-> 40, width_chunk |-> 480,
     pic_h |-> 520, text_up_h |-> 214,
     video_cover_time |-> 3, video_ending_time |-> 3, video_swip_speed |-> 3]

\* No BigImg yet.
NoBigImg ==
    [screen |-> <<0, 0>>, step |-> 0, width_chunk |-> 0, overlap |-> 0,
     pic_h |-> 0, text_up_h |-> 0, text_down_h |-> 0,
     video_cover_time |-> 0, video_ending_time |-> 0, video_swip_speed |-> 0]

\* The arguments the setters are called with (0 trips the setter's assert).
ScreenArgs == {<<1920, 1080>>, <<960, 540>>, <<0, 1080>>}
StepArgs == {0, 2, 3, 5}
WidthChunkArgs == {0, 500, 960}
PicHArgs == {0, 1200}
TextUpHArgs == {0, 540}
SwipSpeedArgs == {0, 7}

\* The tile every modelled sequence repeats.
DefaultTile == Chunk("a.png", <<"name">>, <<"date", "way">>)
Tiles(n) == [i \in 1..n |-> DefaultTile]

\* The checks of build, in order.
WorkDirCheck(exists) == exists
ChunksCheck_Off(n) == TRUE
ChunksCheck(n) == n # 0
PicHCheck(bb) == ~(bb.pic_h > bb.screen[2])
WidthCheck_Off(bb) == TRUE
WidthCheck(bb) == ~(bb.screen[1] % bb.width_chunk # 0)

\* self.step = self.step.min(u32::try_from(self.chunks.len()).unwrap_or(0))
ClampStep_Off(step, n) == step
ClampStep(step, n) == Min(step, n)

\* overlap: self.screen.0 / self.width_chunk
Overlap(bb) == bb.screen[1] \div bb.width_chunk

\* text_down_h: self.screen.1 - self.pic_h - self.text_up_h
TextDownH(bb) == bb.screen[2] - bb.pic_h - bb.text_up_h

\* The font: std::fs::read of the bundled file, then FontVec::try_from_vec.
FontOutcomes == {"ok", "read_failed", "invalid"}

BigImgOf(bb, n) ==
    [screen |-> bb.screen, step |-> ClampStep(bb.step, n),
     width_chunk |-> bb.width_chunk, overlap |-> Overlap(bb),
     pic_h |-> bb.pic_h, text_up_h |-> bb.text_up_h,
     text_down_h |-> TextDownH(bb),
     video_cover_time |-> bb.video_cover_time,
     video_ending_time |-> bb.video_ending_time,
     video_swip_speed |-> bb.video_swip_speed]

\* BigImgBuilder::build: [ret, step, panic], `step` being self.step afterwards.
build(bb, n, work_dir_exists, font, checks) ==
    IF ~WorkDirCheck(work_dir_exists) \/ ~ChunksCheck(n)
       \/ ~PicHCheck(bb) \/ ~WidthCheck(bb)
    THEN [ret |-> Err("BigImgBuilderError"), step |-> bb.step, panic |-> FALSE]
    ELSE IF checks /\ TextDownH(bb) < 0
    THEN [ret |-> NoResult, step |-> ClampStep(bb.step, n), panic |-> TRUE]
    ELSE IF font = "read_failed"
    THEN [ret |-> Err("IoError"), step |-> ClampStep(bb.step, n), panic |-> FALSE]
    ELSE IF font = "invalid"
    THEN [ret |-> Err("InvalidFont"), step |-> ClampStep(bb.step, n), panic |-> FALSE]
    ELSE [ret |-> Ok(BigImgOf(bb, n)), step |-> ClampStep(bb.step, n), panic |-> FALSE]

\* No encoder was invoked yet.
NoInvocation == [status |-> "none", ret |-> NoResult]

RunIdle ==
    /\ frames = <<>>
    /\ index = 0
    /\ results = <<>>
    /\ log = <<>>
    /\ manifest = <<>>
    /\ concat_input = <<>>
    /\ rm_attempted = <<>>
    /\ rm_failed = FALSE
    /\ encoder = NoInvocation
    /\ crops = <<>>
    /\ scrolls = <<>>
    /\ run_ret = NoResult

PipelineIdle ==
    /\ p_pc = "idle"
    /\ variant = "none"
    /\ chunks = <<>>
    /\ builder = BigImgBuilder_new
    /\ build_ret = NoResult
    /\ si = NoBigImg
    /\ RunIdle

DrawIdle ==
    /\ g_pc = "idle"
    /\ g_op = "none"
    /\ g_canvas = <<0, 0>>
    /\ g_geom = [pts |-> <<>>, r1 |-> 0, r2 |-> 0]
    /\ g_points = <<>>
    /\ g_calls = <<>>
    /\ g_panic = FALSE

TextIdle ==
    /\ t_pc = "idle"
    /\ t_rect = <<0, 0>>
    /\ t_raw = <<0, 0>>
    /\ t_scale = [num |-> 1, den |-> 1]

RenderIdle ==
    /\ f_pc = "idle"
    /\ f_fn = "none"
    /\ f_tiles = <<>>
    /\ f_cfg = NoBigImg
    /\ f_ret = [ret |-> NoResult, panic |-> FALSE]

\* main: the tile sequence is read, then the builder is made or the slides
\* configuration is read.
PipelineInit ==
    /\ p_pc = "start"
    /\ variant = "none"
    /\ chunks \in {Tiles(n) : n \in 0..MaxTiles}
    /\ builder = BigImgBuilder_new
    /\ build_ret = NoResult
    /\ si = NoBigImg
    /\ RunIdle

\* BigImg::builder / BigImgBuilder::new
BigImg_builder ==
    /\ p_pc = "start"
    /\ p_pc' = "builder"
    /\ variant' = "BigImg"
    /\ builder' = BigImgBuilder_new
    /\ UNCHANGED <<chunks, build_ret, si, rvars>>
    /\ UNCHANGED <<overflow_checks, dvars, cvars, fvars, gvars, tvars>>

\* A setter with `assert!(arg != 0)`: panics on 0, stores the argument otherwise.
SetOrPanic(field, arg, zero) ==
    /\ IF zero
       THEN p_pc' = "panic_setter" /\ builder' = builder
       ELSE p_pc' = p_pc /\ builder' = [builder EXCEPT ![field] = arg]
    /\ UNCHANGED <<variant, chunks, build_ret, si, rvars>>
    /\ UNCHANGED <<overflow_checks, dvars, cvars, fvars, gvars, tvars>>

BigImgBuilder_screen ==
    /\ p_pc = "builder"
    /\ \E arg \in ScreenArgs : SetOrPanic("screen", arg, ~(arg[1] # 0 /\ arg[2] # 0))

BigImgBuilder_step ==
    /\ p_pc = "builder"
    /\ \E arg \in StepArgs : SetOrPanic("step", arg, arg = 0)

BigImgBuilder_width_chunk ==
    /\ p_pc = "builder"
    /\ \E arg \in WidthChunkArgs : SetOrPanic("width_chunk", arg, arg = 0)

BigImgBuilder_pic_h ==
    /\ p_pc = "builder"
    /\ \E arg \in PicHArgs : SetOrPanic("pic_h", arg, arg = 0)

BigImgBuilder_text_up_h ==
    /\ p_pc = "builder"
    /\ \E arg \in TextUpHArgs : SetOrPanic("text_up_h", arg, arg = 0)

\* video_swip_speed has no assert.
BigImgBuilder_video_swip_speed ==
    /\ p_pc = "builder"
    /\ \E arg \in SwipSpeedArgs : SetOrPanic("video_swip_speed", arg, FALSE)

BigImgBuilder_build ==
    /\ p_pc = "builder"
    /\ \E work_dir_exists \in BOOLEAN, font \in FontOutcomes :
          LET r == build(builder, Len(chunks), work_dir_exists, font, overflow_checks)
          IN  /\ builder' = [builder EXCEPT !.step = r.step]
              /\ build_ret' = r.ret
              /\ si' = IF r.ret.ok THEN r.ret.value[1] ELSE si
              /\ p_pc' = IF r.panic THEN "panic_build"
                         ELSE IF r.ret.ok THEN "built" ELSE "build_err"
    /\ UNCHANGED <<variant, chunks, rvars>>
    /\ UNCHANGED <<overflow_checks, dvars, cvars, fvars, gvars, tvars>>

\* slides::read_config: the VideoConfig is whatever the file holds; nothing
\* is validated.
SlidesScreens == {<<1920, 1080>>}
SlidesWidths == {192, 960}
SlidesSteps == {0, 1, 3}
SlidesOverlaps == {0, 1, 2}
SlidesSwipSpeeds == {0, 10}

read_config ==
    /\ p_pc = "start"
    /\ p_pc' = "built"
    /\ variant' = "slides"
    /\ \E sc \in SlidesScreens, w \in SlidesWidths, st \in SlidesSteps,
          ov \in SlidesOverlaps, sp \in SlidesSwipSpeeds :
          si' = [screen |-> sc, step |-> st, width_chunk |-> w, overlap |-> ov,
                 pic_h |-> 0, text_up_h |-> 0, text_down_h |-> 0,
                 video_cover_time |-> 3, video_ending_time |-> 3,
                 video_swip_speed |-> sp]
    /\ UNCHANGED <<chunks, builder, build_ret, rvars>>
    /\ UNCHANGED <<overflow_checks, dvars, cvars, fvars, gvars, tvars>>

(***************************************************************************)
(* File names.  A name is its stem (a sequence of characters) and its      *)
(* extension.                                                              *)
(***************************************************************************)
DigitChars == <<"0", "1", "2", "3", "4", "5", "6", "7", "8", "9">>

\* The decimal digits of n, as `{}` formats an unsigned integer.
RECURSIVE to_string(_)
to_string(n) ==
    IF n < 10 THEN <<DigitChars[n + 1]>>
    ELSE to_string(n \div 10) \o <<DigitChars[(n % 10) + 1]>>

\* `{:0>w}`: right-aligned, filled with "0" on the left up to width w.
RECURSIVE PadLeft(_, _, _)
PadLeft(str, width, fill) ==
    IF Len(str) >= width THEN str ELSE PadLeft(<<fill>> \o str, width, fill)

Path(stem, ext) == [stem |-> stem, ext |-> ext]
with_extension(path, ext) == [path EXCEPT !.ext = ext]

cover_pic_name == Path(<<"c", "o", "v", "e", "r">>, "png")
ending_pic_name == Path(<<"e", "n", "d", "i", "n", "g">>, "png")
\* format!("{index:0>2}.png")
mid_pic_name(idx) == Path(PadLeft(to_string(idx), 2, "0"), "png")
list_file == Path(<<"l", "i", "s", "t">>, "txt")

(***************************************************************************)
(* The steps of run.                                                       *)
(***************************************************************************)
Event(op, idx, outcome) == [op |-> op, index |-> idx, outcome |-> outcome]
OutcomeOf(r, panic) == IF panic THEN "panic" ELSE IF r.ok THEN "ok" ELSE "err"
Unit == "()"

\* BigImg::ffmpeg / slides::ffmpeg: Command::output()? then status.success().
EncoderOutcomes == {"spawn_failed", "exit_nonzero", "exit_zero"}
ffmpeg_IgnoreStatus(outcome) ==
    IF outcome = "spawn_failed" THEN Err("IoError") ELSE Ok(Unit)
ffmpeg(outcome) ==
    IF outcome = "spawn_failed" THEN Err("IoError")
    ELSE IF outcome # "exit_zero" THEN Err("Other")
    ELSE Ok(Unit)

\* An encoder invocation: how the process ended and what ffmpeg returned.
Invocation(outcome) == [status |-> outcome, ret |-> ffmpeg(outcome)]

\* DynamicImage::save(..).map_err(|e| err_new_image!(e))
save(ok) == IF ok THEN Ok(Unit) ELSE Err("ImageError")

\* std::fs::write(&list_file, result_str)?
fs_write(ok) == IF ok THEN Ok(Unit) ELSE Err("IoError")

\* Chunk::draw_data after the picture was opened: dividing by an empty
\* caption list panics, and so does `text_down_h - 30` when overflow is checked.
DrawDataPanics(cfg, tile, checks) ==
    \/ Len(tile.text_up) = 0
    \/ Len(tile.text_down) = 0
    \/ checks /\ cfg.text_down_h >= 0 /\ cfg.text_down_h < 30

\* Chunk::draw_data: image::open(..)? first, then the caption heights.
draw_data(cfg, tile, image_ok, checks) ==
    IF ~image_ok THEN [ret |-> Err("ImageError"), panic |-> FALSE]
    ELSE IF DrawDataPanics(cfg, tile, checks) THEN [ret |-> NoResult, panic |-> TRUE]
    ELSE [ret |-> Ok(<<cfg.width_chunk, cfg.screen[2]>>), panic |-> FALSE]

\* BigImg::combain_chunk over the tiles of one frame: [ret, panic].
combain_chunk(cfg, tiles, images_ok, checks) ==
    IF tiles = <<>> THEN [ret |-> Err("Other"), panic |-> FALSE]
    ELSE IF ~images_ok THEN [ret |-> Err("ImageError"), panic |-> FALSE]
    ELSE IF \E i \in 1..Len(tiles) : DrawDataPanics(cfg, tiles[i], checks)
    THEN [ret |-> NoResult, panic |-> TRUE]
    ELSE [ret |-> Ok(Len(tiles) * cfg.width_chunk), panic |-> FALSE]

\* slides::combain_slides: render_frame per slide.
combain_slides(cfg, tiles, images_ok) ==
    IF tiles = <<>> THEN [ret |-> Err("Other"), panic |-> FALSE]
    ELSE IF ~images_ok THEN [ret |-> Err("ImageError"), panic |-> FALSE]
    ELSE [ret |-> Ok(Len(tiles) * cfg.width_chunk), panic |-> FALSE]

\* generate_endpoint_video: one encoder call.
generate_endpoint_video(outcome) == ffmpeg(outcome)

\* let adjust_len = len - self.overlap;  Without overflow checks the
\* subtraction wraps: a negative number stands for 2^32 plus it.
adjust_len(cfg, len) == len - cfg.overlap

\* let run_seconds = self.video_swip_speed * adjust_len + 1;
run_seconds_WholeFrame(cfg, len) == cfg.video_swip_speed * len + 1
run_seconds(cfg, len) == cfg.video_swip_speed * adjust_len(cfg, len) + 1

\* let speed = self.width_chunk / self.video_swip_speed;  (u32 division)
speed(cfg) == cfg.width_chunk \div cfg.video_swip_speed

\* The scroll clip asked of the encoder: -t {run_seconds}, overlay=x=-t*{speed}.
Scroll(cfg, idx, len) ==
    [index |-> idx, len |-> len, run_seconds |-> run_seconds(cfg, len),
     speed |-> speed(cfg)]

\* target.crop_imm(x, 0, self.screen.0, self.screen.1) on a frame image_w wide
Crop(kind, cfg, idx, x, image_w) ==
    [kind |-> kind, index |-> idx, x |-> x, width |-> cfg.screen[1],
     height |-> cfg.screen[2], image_w |-> image_w]

\* let (w, _) = target.dimensions();
FrameWidth(cfg, len) == len * cfg.width_chunk

\* generate_mid_video: `len - overlap` panics on underflow when overflow is
\* checked, `width_chunk / video_swip_speed` panics on 0; then one encoder call.
generate_mid_video(cfg, len, outcome, checks) ==
    IF checks /\ len < cfg.overlap THEN [ret |-> NoResult, panic |-> TRUE]
    ELSE IF cfg.video_swip_speed = 0 THEN [ret |-> NoResult, panic |-> TRUE]
    ELSE [ret |-> ffmpeg(outcome), panic |-> FALSE]

\* if index == 0 / if index == chunks.len() - 1
IsFirst(idx) == idx = 0
IsLast_Always(idx, m) == TRUE
IsLast(idx, m) == idx = m - 1

\* The `?` on a step's result: go on to `next` on Ok, return the error otherwise.
Propagate_Swallow(r, next) == next
Propagate(r, next) == IF r.ok THEN next ELSE "done"

\* The for loop: the next frame, or combain after the last one.
LoopNext(idx, m) == IF idx + 1 < m THEN "render" ELSE "write_list"

FrameTiles(w) == SubSeq(chunks, w.start + 1, w.end)
FrameLen(w) == w.end - w.start

\* One step of run with result r (panicking when `panic`), logged as `op`,
\* followed by `next`.
Step(op, r, panic, next) ==
    /\ log' = Append(log, Event(op, index, OutcomeOf(r, panic)))
    /\ IF panic
       THEN p_pc' = "panic_run" /\ run_ret' = run_ret
       ELSE /\ p_pc' = Propagate(r, next)
            /\ run_ret' = IF Propagate(r, next) = "done" THEN r ELSE run_ret

\* let chunks = self.divide();
run_divide ==
    /\ p_pc = "built"
    /\ LET r == IF variant = "BigImg"
                THEN divide(Len(chunks), si.step, si.overlap, overflow_checks)
                ELSE slides_divide(Len(chunks), si.step, si.overlap, overflow_checks)
       IN  /\ frames' = r.windows
           /\ p_pc' = IF r.panic THEN "panic_run"
                      ELSE IF r.windows = <<>> THEN "write_list" ELSE "render"
    /\ index' = 0
    /\ UNCHANGED <<bvars, results, log, manifest, concat_input, rm_attempted,
                   rm_failed, run_ret>>
    /\ UNCHANGED <<encoder, crops, scrolls>>
    /\ UNCHANGED <<overflow_checks, dvars, cvars, fvars, gvars, tvars>>

\* let target = self.combain_chunk(chunk)?;
run_combain_chunk ==
    /\ p_pc = "render"
    /\ \E images_ok \in BOOLEAN :
          LET tiles == FrameTiles(frames[index + 1])
              r == IF variant = "BigImg"
                   THEN combain_chunk(si, tiles, images_ok, overflow_checks)
                   ELSE combain_slides(si, tiles, images_ok)
          IN  Step("render", r.ret, r.panic,
                   IF IsFirst(index) THEN "save_cover" ELSE "save_mid")
    /\ UNCHANGED <<bvars, frames, index, results, manifest, concat_input,
                   rm_attempted, rm_failed>>
    /\ UNCHANGED <<encoder, crops, scrolls>>
    /\ UNCHANGED <<overflow_checks, dvars, cvars, fvars, gvars, tvars>>

\* cover.save(..)?
run_save_cover ==
    /\ p_pc = "save_cover"
    /\ \E ok \in BOOLEAN : Step("save_cover", save(ok), FALSE, "encode_cover")
    /\ crops' = Append(crops,
                       Crop("cover", si, index, 0,
                            FrameWidth(si, FrameLen(frames[index + 1]))))
    /\ UNCHANGED <<bvars, frames, index, results, manifest, concat_input,
                   rm_attempted, rm_failed>>
    /\ UNCHANGED <<encoder, scrolls>>
    /\ UNCHANGED <<overflow_checks, dvars, cvars, fvars, gvars, tvars>>

\* self.generate_endpoint_video(cover ..)?; results.push(cover_video_name);
run_encode_cover ==
    /\ p_pc = "encode_cover"
    /\ \E outcome \in EncoderOutcomes :
          LET r == generate_endpoint_video(outcome)
          IN  /\ Step("encode_cover", r, FALSE, "save_mid")
              /\ encoder' = Invocation(outcome)
              /\ results' = IF Propagate(r, "save_mid") = "done" THEN results
                            ELSE Append(results, with_extension(cover_pic_name, "mp4"))
    /\ UNCHANGED <<bvars, frames, index, manifest, concat_input,
                   rm_attempted, rm_failed>>
    /\ UNCHANGED <<crops, scrolls>>
    /\ UNCHANGED <<overflow_checks, dvars, cvars, fvars, gvars, tvars>>

\* target.save(mid_pic_name)?
run_save_mid ==
    /\ p_pc = "save_mid"
    /\ \E ok \in BOOLEAN : Step("save_mid", save(ok), FALSE, "encode_mid")
    /\ UNCHANGED <<bvars, frames, index, results, manifest, concat_input,
                   rm_attempted, rm_failed>>
    /\ UNCHANGED <<encoder, crops, scrolls>>
    /\ UNCHANGED <<overflow_checks, dvars, cvars, fvars, gvars, tvars>>

\* self.generate_mid_video(chunk.len() ..)?; results.push(mid_video_name);
\* then the ending block when this is the last frame, else the next frame.
run_encode_mid ==
    /\ p_pc = "encode_mid"
    /\ \E outcome \in EncoderOutcomes :
          LET r == generate_mid_video(si, FrameLen(frames[index + 1]), outcome,
                                      overflow_checks)
              last == IsLast(index, Len(frames))
              next == IF last THEN "save_ending" ELSE LoopNext(index, Len(frames))
              goes == ~r.panic /\ Propagate(r.ret, next) # "done"
          IN  /\ Step("encode_mid", r.ret, r.panic, next)
              /\ encoder' = IF r.panic THEN encoder ELSE Invocation(outcome)
              /\ scrolls' = IF r.panic THEN scrolls
                            ELSE Append(scrolls,
                                        Scroll(si, index, FrameLen(frames[index + 1])))
              /\ results' = IF goes
                            THEN Append(results, with_extension(mid_pic_name(index), "mp4"))
                            ELSE results
              /\ index' = IF goes /\ next = "render" THEN index + 1 ELSE index
    /\ UNCHANGED <<bvars, frames, manifest, concat_input, rm_attempted, rm_failed>>
    /\ UNCHANGED crops
    /\ UNCHANGED <<overflow_checks, dvars, cvars, fvars, gvars, tvars>>

\* let ending = target.crop_imm(w - self.screen.0, ..); ending.save(..)?
\* `w - screen.0` panics on underflow when overflow is checked.
run_save_ending ==
    /\ p_pc = "save_ending"
    /\ \E ok \in BOOLEAN :
          LET w == FrameWidth(si, FrameLen(frames[index + 1]))
              panic == overflow_checks /\ w < si.screen[1]
          IN  /\ Step("save_ending", save(ok), panic, "encode_ending")
              /\ crops' = IF panic THEN crops
                          ELSE Append(crops, Crop("ending", si, index,
                                                  w - si.screen[1], w))
    /\ UNCHANGED <<bvars, frames, index, results, manifest, concat_input,
                   rm_attempted, rm_failed>>
    /\ UNCHANGED <<encoder, scrolls>>
    /\ UNCHANGED <<overflow_checks, dvars, cvars, fvars, gvars, tvars>>

\* self.generate_endpoint_video(ending ..)?; results.push(ending_video_name);
run_encode_ending ==
    /\ p_pc = "encode_ending"
    /\ \E outcome \in EncoderOutcomes :
          LET r == generate_endpoint_video(outcome)
              next == LoopNext(index, Len(frames))
              goes == Propagate(r, next) # "done"
          IN  /\ Step("encode_ending", r, FALSE, next)
              /\ encoder' = Invocation(outcome)
              /\ results' = IF goes
                            THEN Append(results, with_extension(ending_pic_name, "mp4"))
                            ELSE results
              /\ index' = IF goes /\ next = "render" THEN index + 1 ELSE index
    /\ UNCHANGED <<bvars, frames, manifest, concat_input, rm_attempted, rm_failed>>
    /\ UNCHANGED <<crops, scrolls>>
    /\ UNCHANGED <<overflow_checks, dvars, cvars, fvars, gvars, tvars>>

(***************************************************************************)
(* combain: the manifest, the concat step, the cleanup.                    *)
(***************************************************************************)
\* format!("file {}\n", s.to_string_lossy()), one line per clip
ManifestLine(path) == [directive |-> "file", path |-> path]
ManifestOf(clips) == [k \in 1..Len(clips) |-> ManifestLine(clips[k])]
\* what the concat demuxer reads back from the manifest
ClipsOf(lines) == [k \in 1..Len(lines) |-> lines[k].path]

\* std::fs::write(&list_file, result_str)?
combain_write_list ==
    /\ p_pc = "write_list"
    /\ \E ok \in BOOLEAN :
          LET r == fs_write(ok)
          IN  /\ manifest' = IF ok THEN ManifestOf(results) ELSE manifest
              /\ p_pc' = Propagate(r, "concat")
              /\ run_ret' = IF Propagate(r, "concat") = "done" THEN r ELSE run_ret
    /\ UNCHANGED <<bvars, frames, index, results, log, concat_input,
                   rm_attempted, rm_failed>>
    /\ UNCHANGED <<encoder, crops, scrolls>>
    /\ UNCHANGED <<overflow_checks, dvars, cvars, fvars, gvars, tvars>>

\* self.ffmpeg(&["-f", "concat", "-i", list_file, "-c", "copy", ..])?
combain_concat ==
    /\ p_pc = "concat"
    /\ concat_input' = ClipsOf(manifest)
    /\ \E outcome \in EncoderOutcomes :
          LET r == ffmpeg(outcome)
          IN  /\ log' = Append(log, Event("concat", index, OutcomeOf(r, FALSE)))
              /\ encoder' = Invocation(outcome)
              /\ p_pc' = Propagate(r, "cleanup")
              /\ run_ret' = IF Propagate(r, "cleanup") = "done" THEN r ELSE run_ret
    /\ UNCHANGED <<bvars, frames, index, results, manifest, rm_attempted, rm_failed>>
    /\ UNCHANGED <<crops, scrolls>>
    /\ UNCHANGED <<overflow_checks, dvars, cvars, fvars, gvars, tvars>>

\* The deletions of the cleanup, in order: list.txt, then for every clip the
\* clip itself and, after result.set_extension("png"), its still.
RECURSIVE CleanupOrder(_)
CleanupOrder(clips) ==
    IF clips = <<>> THEN <<>>
    ELSE <<Head(clips), with_extension(Head(clips), "png")>> \o CleanupOrder(Tail(clips))

CleanupList(clips) == <<list_file>> \o CleanupOrder(clips)

\* std::fs::remove_file(..)
remove_file(ok) == IF ok THEN Ok(Unit) ELSE Err("IoError")

\* `let _ = r;`: the result is dropped and execution goes on to `next`.
Discard_Propagate(r, next) == IF r.ok THEN next ELSE "done"
Discard(r, next) == next

\* let _ = std::fs::remove_file(..): one deletion, its failure ignored.
combain_remove_file ==
    /\ p_pc = "cleanup"
    /\ Len(rm_attempted) < Len(CleanupList(results))
    /\ rm_attempted' = Append(rm_attempted,
                              CleanupList(results)[Len(rm_attempted) + 1])
    /\ \E ok \in BOOLEAN :
          LET r == remove_file(ok)
          IN  /\ rm_failed' = (rm_failed \/ ~r.ok)
              /\ p_pc' = Discard(r, "cleanup")
              /\ run_ret' = IF Discard(r, "cleanup") = "done" THEN r ELSE run_ret
    /\ UNCHANGED <<bvars, frames, index, results, log, manifest, concat_input>>
    /\ UNCHANGED <<encoder, crops, scrolls>>
    /\ UNCHANGED <<overflow_checks, dvars, cvars, fvars, gvars, tvars>>

\* println!("cleanup successed"); Ok(())
combain_return ==
    /\ p_pc = "cleanup"
    /\ Len(rm_attempted) = Len(CleanupList(results))
    /\ p_pc' = "done"
    /\ run_ret' = Ok(Unit)
    /\ UNCHANGED <<bvars, frames, index, results, log, manifest, concat_input,
                   rm_attempted, rm_failed>>
    /\ UNCHANGED <<encoder, crops, scrolls>>
    /\ UNCHANGED <<overflow_checks, dvars, cvars, fvars, gvars, tvars>>

(***************************************************************************)
(* The program: the builder, build, run.                                   *)
(***************************************************************************)
Init ==
    /\ overflow_checks \in BOOLEAN
    /\ DivideIdle
    /\ ChunkIdle
    /\ RenderIdle
    /\ DrawIdle
    /\ TextIdle
    /\ PipelineInit

Next ==
    \/ BigImg_builder
    \/ BigImgBuilder_screen
    \/ BigImgBuilder_step
    \/ BigImgBuilder_width_chunk
    \/ BigImgBuilder_pic_h
    \/ BigImgBuilder_text_up_h
    \/ BigImgBuilder_video_swip_speed
    \/ BigImgBuilder_build
    \/ read_config
    \/ run_divide
    \/ run_combain_chunk
    \/ run_save_cover
    \/ run_encode_cover
    \/ run_save_mid
    \/ run_encode_mid
    \/ run_save_ending
    \/ run_encode_ending
    \/ combain_write_list
    \/ combain_concat
    \/ combain_remove_file
    \/ combain_return

Spec == Init /\ [][Next]_vars

(***************************************************************************)
(* divide as a function of its arguments.                                  *)
(***************************************************************************)
DivideInit ==
    /\ overflow_checks \in BOOLEAN
    /\ ChunkIdle
    /\ RenderIdle
    /\ DrawIdle
    /\ TextIdle
    /\ PipelineIdle
    /\ d_pc = "args"
    /\ d_variant = "none"
    /\ d_len \in 0..MaxLen
    /\ d_step \in 0..MaxStep
    /\ d_overlap \in 0..MaxOverlap
    /\ d_ret = NoWindows

CallDivide ==
    /\ d_pc = "args"
    /\ d_pc' = "returned"
    /\ d_variant' = "BigImg"
    /\ d_ret' = divide(d_len, d_step, d_overlap, overflow_checks)
    /\ UNCHANGED <<overflow_checks, d_len, d_step, d_overlap, cvars, fvars, gvars,
                   tvars, pvars>>

CallSlidesDivide ==
    /\ d_pc = "args"
    /\ d_pc' = "returned"
    /\ d_variant' = "slides"
    /\ d_ret' = slides_divide(d_len, d_step, d_overlap, overflow_checks)
    /\ UNCHANGED <<overflow_checks, d_len, d_step, d_overlap, cvars, fvars, gvars,
                   tvars, pvars>>

DivideNext == CallDivide \/ CallSlidesDivide

SpecDivide == DivideInit /\ [][DivideNext]_vars

(***************************************************************************)
(* Chunk::new as a function of its arguments and of the file system.       *)
(***************************************************************************)
ChunkSpecInit ==
    /\ overflow_checks = TRUE
    /\ DivideIdle
    /\ RenderIdle
    /\ DrawIdle
    /\ TextIdle
    /\ PipelineIdle
    /\ ChunkInit

ChunkNext == CallChunkNew /\ UNCHANGED <<overflow_checks, dvars, fvars, gvars, tvars, pvars>>

SpecChunk == ChunkSpecInit /\ [][ChunkNext]_vars

(***************************************************************************)
(* build, combain_chunk, combain_slides and draw_data as functions of the  *)
(* tile list and of the layout.                                            *)
(***************************************************************************)
MaxFrame == 2
RenderTiles == {Chunk("a.png", u, d) : u \in CaptionLists, d \in CaptionLists}
RenderFrames == UNION {[1..n -> RenderTiles] : n \in 0..MaxFrame}
RenderConfigs ==
    {BigImgOf(BigImgBuilder_new, 5),
     BigImgOf([BigImgBuilder_new EXCEPT !.text_up_h = 540], 5)}

RenderInit ==
    /\ overflow_checks \in BOOLEAN
    /\ DivideIdle
    /\ ChunkIdle
    /\ DrawIdle
    /\ TextIdle
    /\ PipelineIdle
    /\ f_pc = "args"
    /\ f_fn = "none"
    /\ f_tiles \in RenderFrames
    /\ f_cfg \in RenderConfigs
    /\ f_ret = [ret |-> NoResult, panic |-> FALSE]

Returns(fn, r) ==
    /\ f_pc' = "returned"
    /\ f_fn' = fn
    /\ f_ret' = r
    /\ UNCHANGED <<overflow_checks, f_tiles, f_cfg, dvars, cvars, gvars, tvars, pvars>>

CallBuild ==
    /\ f_pc = "args"
    /\ \E work_dir_exists \in BOOLEAN, font \in FontOutcomes :
          LET r == build(BigImgBuilder_new, Len(f_tiles), work_dir_exists, font,
                         overflow_checks)
          IN  Returns("build", [ret |-> r.ret, panic |-> r.panic])

CallCombainChunk ==
    /\ f_pc = "args"
    /\ \E images_ok \in BOOLEAN :
          Returns("combain_chunk",
                  combain_chunk(f_cfg, f_tiles, images_ok, overflow_checks))

CallCombainSlides ==
    /\ f_pc = "args"
    /\ \E images_ok \in BOOLEAN :
          Returns("combain_slides", combain_slides(f_cfg, f_tiles, images_ok))

CallDrawData ==
    /\ f_pc = "args"
    /\ f_tiles # <<>>
    /\ \E image_ok \in BOOLEAN :
          Returns("draw_data", draw_data(f_cfg, f_tiles[1], image_ok, overflow_checks))

RenderNext == CallBuild \/ CallCombainChunk \/ CallCombainSlides \/ CallDrawData

SpecRender == RenderInit /\ [][RenderNext]_vars

(***************************************************************************)
(* The rasterizer (swiping_img/imageproc/drawing).  A canvas is its        *)
(* dimensions <<width, height>>; a drawing operation is modelled by the    *)
(* sequence of draw_pixel(x, y) calls it makes.  Coordinates are the       *)
(* integer-valued f32 and i32 values of the source; a negative i32 cast to *)
(* u32 keeps its negative value here (it stands for 2^32 + x).             *)
(***************************************************************************)
Abs(a) == IF a < 0 THEN -a ELSE a
Max(a, b) == IF a >= b THEN a ELSE b

\* draw_if_in_bounds' and draw_line_segment_mut's test of a coordinate.
InBounds(canvas, x, y) == x >= 0 /\ x < canvas[1] /\ y >= 0 /\ y < canvas[2]

\* draw_if_in_bounds: the draw_pixel calls it makes (one or none).
draw_if_in_bounds(canvas, x, y) ==
    IF InBounds(canvas, x, y) THEN <<<<x, y>>>> ELSE <<>>

\* BresenhamLineIter::new.  `error2` is twice the field `error` (dx / 2).
\* if x0 > x1 { swap(&mut x0, &mut x1); swap(&mut y0, &mut y1); }
Reversed_Never(s0, s1) == FALSE
Reversed(s0, s1) == s0[1] > s1[1]

BresenhamLineIter_new(start, end) ==
    LET is_steep == Abs(end[2] - start[2]) > Abs(end[1] - start[1])
        s0 == IF is_steep THEN <<start[2], start[1]>> ELSE start
        s1 == IF is_steep THEN <<end[2], end[1]>> ELSE end
        p0 == IF Reversed(s0, s1) THEN s1 ELSE s0
        p1 == IF Reversed(s0, s1) THEN s0 ELSE s1
    IN  [dx |-> p1[1] - p0[1], dy |-> Abs(p1[2] - p0[2]),
         x |-> p0[1], y |-> p0[2], error2 |-> p1[1] - p0[1],
         end_x |-> p1[1], is_steep |-> is_steep,
         y_step |-> IF p0[2] < p1[2] THEN 1 ELSE -1]

\* BresenhamLineIter::next: `if self.x > self.end_x { None }`
HasNext_Strict(it) == it.x < it.end_x
HasNext(it) == ~(it.x > it.end_x)

\* the point returned by next
Item(it) == IF it.is_steep THEN <<it.y, it.x>> ELSE <<it.x, it.y>>

\* the iterator after next
Advance(it) ==
    LET e == it.error2 - 2 * it.dy
    IN  IF e < 0
        THEN [it EXCEPT !.x = it.x + 1, !.y = it.y + it.y_step,
                        !.error2 = e + 2 * it.dx]
        ELSE [it EXCEPT !.x = it.x + 1, !.error2 = e]

\* all the points the iterator yields
RECURSIVE Iterate(_)
Iterate(it) ==
    IF ~HasNext(it) THEN <<>> ELSE <<Item(it)>> \o Iterate(Advance(it))

BresenhamPoints(start, end) == Iterate(BresenhamLineIter_new(start, end))

\* draw_line_segment_mut: a draw_pixel call for every point in bounds.
draw_line_segment_mut(canvas, start, end) ==
    LET in_bounds(pt) == pt[1] >= 0 /\ pt[1] < canvas[1]
                         /\ pt[2] >= 0 /\ pt[2] < canvas[2]
    IN  SelectSeq(BresenhamPoints(start, end), in_bounds)

\* draw_filled_circle_mut: four spans per step of the midpoint loop.
RECURSIVE FilledCircleLoop(_, _, _, _, _, _)
FilledCircleLoop(canvas, x0, y0, x, y, p) ==
    IF ~(x <= y) THEN <<>>
    ELSE draw_line_segment_mut(canvas, <<x0 - x, y0 + y>>, <<x0 + x, y0 + y>>)
         \o draw_line_segment_mut(canvas, <<x0 - y, y0 + x>>, <<x0 + y, y0 + x>>)
         \o draw_line_segment_mut(canvas, <<x0 - x, y0 - y>>, <<x0 + x, y0 - y>>)
         \o draw_line_segment_mut(canvas, <<x0 - y, y0 - x>>, <<x0 + y, y0 - x>>)
         \o (IF p < 0
             THEN FilledCircleLoop(canvas, x0, y0, x + 1, y, p + 2 * (x + 1) + 1)
             ELSE FilledCircleLoop(canvas, x0, y0, x + 1, y - 1,
                                   p + 2 * ((x + 1) - (y - 1)) + 1))

draw_filled_circle_mut(canvas, center, radius) ==
    FilledCircleLoop(canvas, center[1], center[2], 0, radius, 1 - radius)

\* draw_hollow_circle_mut: eight points per step of the midpoint loop.
RECURSIVE HollowCircleLoop(_, _, _, _, _, _)
HollowCircleLoop(canvas, x0, y0, x, y, p) ==
    IF ~(x <= y) THEN <<>>
    ELSE draw_if_in_bounds(canvas, x0 + x, y0 + y)
         \o draw_if_in_bounds(canvas, x0 + y, y0 + x)
         \o draw_if_in_bounds(canvas, x0 - y, y0 + x)
         \o draw_if_in_bounds(canvas, x0 - x, y0 + y)
         \o draw_if_in_bounds(canvas, x0 - x, y0 - y)
         \o draw_if_in_bounds(canvas, x0 - y, y0 - x)
         \o draw_if_in_bounds(canvas, x0 + y, y0 - x)
         \o draw_if_in_bounds(canvas, x0 + x, y0 - y)
         \o (IF p < 0
             THEN HollowCircleLoop(canvas, x0, y0, x + 1, y, p + 2 * (x + 1) + 1)
             ELSE HollowCircleLoop(canvas, x0, y0, x + 1, y - 1,
                                   p + 2 * ((x + 1) - (y - 1)) + 1))

draw_hollow_circle_mut(canvas, center, radius) ==
    HollowCircleLoop(canvas, center[1], center[2], 0, radius, 1 - radius)

\* draw_cross_mut: the plus-shaped stencil around (x, y), clipped row by row
\* and column by column.
Stencil == <<0, 1, 0, 1, 1, 1, 0, 1, 0>>
StencilIdx(sx, sy) == 3 * (sy + 1) + sx + 1

RECURSIVE CrossLoop(_, _, _, _, _)
CrossLoop(canvas, x, y, sx, sy) ==
    IF sy >= 2 THEN <<>>
    ELSE IF sx >= 2 \/ y + sy < 0 \/ y + sy >= canvas[2]
    THEN CrossLoop(canvas, x, y, -1, sy + 1)
    ELSE (IF ~(x + sx < 0 \/ x + sx >= canvas[1])
             /\ Stencil[StencilIdx(sx, sy) + 1] = 1
          THEN <<<<x + sx, y + sy>>>>
          ELSE <<>>)
         \o CrossLoop(canvas, x, y, sx + 1, sy)

draw_cross_mut(canvas, x, y) == CrossLoop(canvas, x, y, -1, -1)

\* draw_ellipse: the (x, y) offsets handed to render_func, in order.  `p4` is
\* four times the decision variable p (which holds quarters).
RECURSIVE EllipseTop(_, _, _, _, _, _, _)
EllipseTop(x, y, px, py, p4, w2, h2) ==
    IF ~(px < py) THEN [pts |-> <<>>, x |-> x, y |-> y, px |-> px, py |-> py]
    ELSE LET nx == x + 1
             npx == px + 2 * h2
             low == p4 < 0
             ny == IF low THEN y ELSE y - 1
             npy == IF low THEN py ELSE py - 2 * w2
             np4 == IF low THEN p4 + 4 * (h2 + npx) ELSE p4 + 4 * (h2 + npx - npy)
             rest == EllipseTop(nx, ny, npx, npy, np4, w2, h2)
         IN  [rest EXCEPT !.pts = <<<<nx, ny>>>> \o rest.pts]

RECURSIVE EllipseSide(_, _, _, _, _, _, _)
EllipseSide(x, y, px, py, p4, w2, h2) ==
    IF ~(y > 0) THEN <<>>
    ELSE LET ny == y - 1
             npy == py - 2 * w2
             high == p4 > 0
             nx == IF high THEN x ELSE x + 1
             npx == IF high THEN px ELSE px + 2 * h2
             np4 == IF high THEN p4 + 4 * (w2 - npy) ELSE p4 + 4 * (w2 - npy + npx)
         IN  <<<<nx, ny>>>> \o EllipseSide(nx, ny, npx, npy, np4, w2, h2)

draw_ellipse(width_radius, height_radius) ==
    LET w2 == width_radius * width_radius
        h2 == height_radius * height_radius
        top == EllipseTop(0, height_radius, 0, 2 * w2 * height_radius,
                          4 * h2 - 4 * w2 * height_radius + w2, w2, h2)
        p4 == h2 * (2 * top.x + 1) * (2 * top.x + 1)
              + 4 * w2 * (top.y - 1) * (top.y - 1) - 4 * w2 * h2
    IN  <<<<0, height_radius>>>> \o top.pts
        \o EllipseSide(top.x, top.y, top.px, top.py, p4, w2, h2)

\* the closure draw_line_pairs of draw_filled_ellipse_mut
draw_line_pairs(canvas, x0, y0, x, y) ==
    draw_line_segment_mut(canvas, <<x0 - x, y0 + y>>, <<x0 + x, y0 + y>>)
    \o draw_line_segment_mut(canvas, <<x0 - x, y0 - y>>, <<x0 + x, y0 - y>>)

\* the closure draw_quad_pixels of draw_hollow_ellipse_mut
draw_quad_pixels(canvas, x0, y0, x, y) ==
    draw_if_in_bounds(canvas, x0 + x, y0 + y)
    \o draw_if_in_bounds(canvas, x0 - x, y0 + y)
    \o draw_if_in_bounds(canvas, x0 + x, y0 - y)
    \o draw_if_in_bounds(canvas, x0 - x, y0 - y)

RECURSIVE RenderAll(_, _, _, _)
RenderAll(canvas, filled, center, offsets) ==
    IF offsets = <<>> THEN <<>>
    ELSE (IF filled
          THEN draw_line_pairs(canvas, center[1], center[2],
                               Head(offsets)[1], Head(offsets)[2])
          ELSE draw_quad_pixels(canvas, center[1], center[2],
                                Head(offsets)[1], Head(offsets)[2]))
         \o RenderAll(canvas, filled, center, Tail(offsets))

draw_filled_ellipse_mut(canvas, center, width_radius, height_radius) ==
    IF width_radius = height_radius
    THEN draw_filled_circle_mut(canvas, center, width_radius)
    ELSE RenderAll(canvas, TRUE, center, draw_ellipse(width_radius, height_radius))

draw_hollow_ellipse_mut(canvas, center, width_radius, height_radius) ==
    IF width_radius = height_radius
    THEN draw_hollow_circle_mut(canvas, center, width_radius)
    ELSE RenderAll(canvas, FALSE, center, draw_ellipse(width_radius, height_radius))

\* Rect: origin and size; right and bottom are exclusive bounds.
Rect_at_of_size(x, y, width, height) ==
    [left |-> x, top |-> y, width |-> width, height |-> height]
Rect_right(r) == r.left + r.width
Rect_bottom(r) == r.top + r.height

\* Rect::intersect: Some(the common area), None when there is none.
Rect_intersect(a, b) ==
    LET left == Max(a.left, b.left)
        top == Max(a.top, b.top)
        right == Min(Rect_right(a), Rect_right(b))
        bottom == Min(Rect_bottom(a), Rect_bottom(b))
    IN  IF right <= left \/ bottom <= top
        THEN [some |-> FALSE, rect |-> Rect_at_of_size(0, 0, 0, 0)]
        ELSE [some |-> TRUE,
              rect |-> Rect_at_of_size(left, top, right - left, bottom - top)]

\* for dy in 0..height { for dx in 0..width { draw_pixel(left + dx, top + dy) } }
RectPixels(r) ==
    [k \in 1..(r.width * r.height) |->
        <<r.left + ((k - 1) % r.width), r.top + ((k - 1) \div r.width)>>]

\* draw_filled_rect_mut: the pixels of the intersection with the canvas.
draw_filled_rect_mut_NoClip(canvas, rect) == RectPixels(rect)
draw_filled_rect_mut(canvas, rect) ==
    LET canvas_bounds == Rect_at_of_size(0, 0, canvas[1], canvas[2])
        intersection == Rect_intersect(canvas_bounds, rect)
    IN  IF intersection.some THEN RectPixels(intersection.rect) ELSE <<>>

\* f32::round of the quotient n / d: half away from zero.
Round(n, d) ==
    LET nn == IF d < 0 THEN -n ELSE n
        dd == Abs(d)
    IN  IF nn >= 0 THEN (2 * nn + dd) \div (2 * dd)
        ELSE -((2 * (-nn) + dd) \div (2 * dd))

\* intersections.sort_unstable()
RECURSIVE Insert(_, _)
Insert(v, sorted) ==
    IF sorted = <<>> THEN <<v>>
    ELSE IF v <= Head(sorted) THEN <<v>> \o sorted
    ELSE <<Head(sorted)>> \o Insert(v, Tail(sorted))

RECURSIVE Sort(_)
Sort(seq) == IF seq = <<>> THEN <<>> ELSE Insert(Head(seq), Sort(Tail(seq)))

\* What one edge p0 -> p1 pushes onto `intersections` for the scan line y.
\* The quotient p0.x + (y - p0.y) / (p1.y - p0.y) * (p1.x - p0.x) is exact
\* here: for the coordinates of the model its f32 value rounds as the
\* rational does.
EdgeIntersections_Touching(p0, p1, y) ==
    IF ~((p0[2] <= y /\ p1[2] >= y) \/ (p1[2] <= y /\ p0[2] >= y)) THEN <<>>
    ELSE IF p0[2] = p1[2] THEN <<p0[1], p1[1]>>
    ELSE IF p0[2] = y THEN <<p0[1]>>
    ELSE IF p1[2] = y THEN <<p1[1]>>
    ELSE <<Round(p0[1] * (p1[2] - p0[2]) + (y - p0[2]) * (p1[1] - p0[1]),
                 p1[2] - p0[2])>>
EdgeIntersections(p0, p1, y) ==
    IF ~((p0[2] <= y /\ p1[2] >= y) \/ (p1[2] <= y /\ p0[2] >= y)) THEN <<>>
    ELSE IF p0[2] = p1[2] THEN <<p0[1], p1[1]>>
    ELSE IF p0[2] = y \/ p1[2] = y
    THEN (IF p1[2] > y THEN <<p0[1]>> ELSE <<>>)
         \o (IF p0[2] > y THEN <<p1[1]>> ELSE <<>>)
    ELSE <<Round(p0[1] * (p1[2] - p0[2]) + (y - p0[2]) * (p1[1] - p0[1]),
                 p1[2] - p0[2])>>

\* closed.windows(2): edge k joins vertex k to vertex k + 1, the last one to
\* the first.
Edges(poly) ==
    [k \in 1..Len(poly) |-> <<poly[k], poly[(k % Len(poly)) + 1]>>]

RECURSIVE Intersections(_, _)
Intersections(edges, y) ==
    IF edges = <<>> THEN <<>>
    ELSE EdgeIntersections(Head(edges)[1], Head(edges)[2], y)
         \o Intersections(Tail(edges), y)

\* One chunk of two intersections: the pixels from..=to of row y.
SpanPixels(canvas, r0, r1, y) ==
    LET from == Min(r0, canvas[1])
        to == Min(r1, canvas[1] - 1)
    IN  IF from < canvas[1] /\ to >= 0
        THEN [k \in 1..(Max(0, to) - Max(0, from) + 1) |-> <<Max(0, from) + k - 1, y>>]
        ELSE <<>>

\* intersections.chunks(2).for_each(..): range[1] of a chunk of one element
\* is an index out of bounds, a panic.
RECURSIVE Spans(_, _, _)
Spans(canvas, xs, y) ==
    IF xs = <<>> THEN [calls |-> <<>>, panic |-> FALSE]
    ELSE IF Len(xs) = 1 THEN [calls |-> <<>>, panic |-> TRUE]
    ELSE LET rest == Spans(canvas, Tail(Tail(xs)), y)
         IN  [calls |-> SpanPixels(canvas, xs[1], xs[2], y) \o rest.calls,
              panic |-> rest.panic]

\* for y in y_min..y_max + 1 { .. }
RECURSIVE ScanLines(_, _, _, _)
ScanLines(canvas, edges, y, y_max) ==
    IF y > y_max THEN [calls |-> <<>>, panic |-> FALSE]
    ELSE LET row == Spans(canvas, Sort(Intersections(edges, y)), y)
             rest == IF row.panic THEN [calls |-> <<>>, panic |-> TRUE]
                     ELSE ScanLines(canvas, edges, y + 1, y_max)
         IN  [calls |-> row.calls \o rest.calls, panic |-> rest.panic]

\* for edge in &edges { plotter(self, start, end, color) } with the plotter
\* of draw_polygon_mut, draw_line_segment_mut
RECURSIVE PlotEdges(_, _)
PlotEdges(canvas, edges) ==
    IF edges = <<>> THEN <<>>
    ELSE draw_line_segment_mut(canvas, Head(edges)[1], Head(edges)[2])
         \o PlotEdges(canvas, Tail(edges))

RECURSIVE MinY(_)
MinY(poly) ==
    IF Len(poly) = 1 THEN poly[1][2] ELSE Min(poly[1][2], MinY(Tail(poly)))
RECURSIVE MaxY(_)
MaxY(poly) ==
    IF Len(poly) = 1 THEN poly[1][2] ELSE Max(poly[1][2], MaxY(Tail(poly)))

\* if poly[0] == poly[poly.len() - 1] { panic!(..) }
IsClosed_Off(poly) == FALSE
IsClosed(poly) == poly[1] = poly[Len(poly)]

\* draw_polygon_mut = draw_polygon_with_mut with the line plotter.
draw_polygon_mut(canvas, poly) ==
    IF poly = <<>> THEN [calls |-> <<>>, panic |-> FALSE]
    ELSE IF IsClosed(poly) THEN [calls |-> <<>>, panic |-> TRUE]
    ELSE LET y_min == Max(0, Min(MinY(poly), canvas[2] - 1))
             y_max == Max(0, Min(MaxY(poly), canvas[2] - 1))
             fill == ScanLines(canvas, Edges(poly), y_min, y_max)
         IN  IF fill.panic THEN fill
             ELSE [calls |-> fill.calls \o PlotEdges(canvas, Edges(poly)),
                   panic |-> FALSE]

\* for window in poly.windows(2) { draw_line_segment_mut(..) }
RECURSIVE Polyline(_, _)
Polyline(canvas, poly) ==
    IF Len(poly) < 2 THEN <<>>
    ELSE draw_line_segment_mut(canvas, poly[1], poly[2])
         \o Polyline(canvas, Tail(poly))

\* draw_hallow_polygon_mut
draw_hallow_polygon_mut(canvas, poly) ==
    IF poly = <<>> THEN [calls |-> <<>>, panic |-> FALSE]
    ELSE IF Len(poly) < 2 THEN [calls |-> <<>>, panic |-> TRUE]
    ELSE IF poly[1] = poly[Len(poly)] THEN [calls |-> <<>>, panic |-> TRUE]
    ELSE [calls |-> Polyline(canvas, poly)
                    \o draw_line_segment_mut(canvas, poly[1], poly[Len(poly)]),
          panic |-> FALSE]

(***************************************************************************)
(* The drawing operations as functions of the canvas and of the geometry.  *)
(***************************************************************************)
MaxCanvas == 2
MaxCoord == 3
MaxRadius == 2
MaxVertices == 3

Canvases == (0..MaxCanvas) \X (0..MaxCanvas)
GridPoints == (-1..MaxCoord) \X (-1..MaxCoord)
Radii == -1..MaxRadius
PolyPoints == {-1, 1, MaxCoord} \X {-1, 1, MaxCoord}
\* and the quadrilaterals on a finer grid, with their horizontal edges and
\* their vertices lying on the scan lines of the canvas
QuadPoints == {0, 2} \X {0, 1, 2}
Quads == [1..4 -> QuadPoints]
Polygons == UNION {[1..n -> PolyPoints] : n \in 0..MaxVertices} \cup Quads

Geom(pts, r1, r2) == [pts |-> pts, r1 |-> r1, r2 |-> r2]
LineGeoms == {Geom(<<p, q>>, 0, 0) : p \in GridPoints, q \in GridPoints}
RadialGeoms == {Geom(<<c>>, r1, r2) : c \in GridPoints, r1 \in Radii, r2 \in Radii}
PolyGeoms == {Geom(v, 0, 0) : v \in Polygons}

DrawInit ==
    /\ overflow_checks = TRUE
    /\ DivideIdle
    /\ ChunkIdle
    /\ RenderIdle
    /\ TextIdle
    /\ PipelineIdle
    /\ g_pc = "args"
    /\ g_op = "none"
    /\ g_canvas \in Canvases
    /\ g_geom \in LineGeoms \cup RadialGeoms \cup PolyGeoms
    /\ g_points = <<>>
    /\ g_calls = <<>>
    /\ g_panic = FALSE

Drawn(op, points, calls, panic) ==
    /\ g_pc' = "returned"
    /\ g_op' = op
    /\ g_points' = points
    /\ g_calls' = calls
    /\ g_panic' = panic
    /\ UNCHANGED <<overflow_checks, g_canvas, g_geom, dvars, cvars, fvars, tvars,
                   pvars>>

IsPoint == Len(g_geom.pts) = 1
IsPlain == g_geom.r1 = 0 /\ g_geom.r2 = 0

CallLineSegment ==
    /\ g_pc = "args"
    /\ Len(g_geom.pts) = 2 /\ IsPlain
    /\ Drawn("line", BresenhamPoints(g_geom.pts[1], g_geom.pts[2]),
             draw_line_segment_mut(g_canvas, g_geom.pts[1], g_geom.pts[2]), FALSE)

CallFilledCircle ==
    /\ g_pc = "args"
    /\ IsPoint /\ g_geom.r2 = 0
    /\ Drawn("filled_circle", <<>>,
             draw_filled_circle_mut(g_canvas, g_geom.pts[1], g_geom.r1), FALSE)

CallHollowCircle ==
    /\ g_pc = "args"
    /\ IsPoint /\ g_geom.r2 = 0
    /\ Drawn("hollow_circle", <<>>,
             draw_hollow_circle_mut(g_canvas, g_geom.pts[1], g_geom.r1), FALSE)

CallFilledEllipse ==
    /\ g_pc = "args"
    /\ IsPoint
    /\ Drawn("filled_ellipse", <<>>,
             draw_filled_ellipse_mut(g_canvas, g_geom.pts[1], g_geom.r1, g_geom.r2),
             FALSE)

CallHollowEllipse ==
    /\ g_pc = "args"
    /\ IsPoint
    /\ Drawn("hollow_ellipse", <<>>,
             draw_hollow_ellipse_mut(g_canvas, g_geom.pts[1], g_geom.r1, g_geom.r2),
             FALSE)

CallCross ==
    /\ g_pc = "args"
    /\ IsPoint /\ IsPlain
    /\ Drawn("cross", <<>>,
             draw_cross_mut(g_canvas, g_geom.pts[1][1], g_geom.pts[1][2]), FALSE)

\* the rect has its origin at pts[1] and the size r1 x r2 (u32: not negative)
CallFilledRect ==
    /\ g_pc = "args"
    /\ IsPoint /\ g_geom.r1 >= 0 /\ g_geom.r2 >= 0
    /\ Drawn("filled_rect", <<>>,
             draw_filled_rect_mut(g_canvas,
                 Rect_at_of_size(g_geom.pts[1][1], g_geom.pts[1][2],
                                 g_geom.r1, g_geom.r2)),
             FALSE)

CallPolygon ==
    /\ g_pc = "args"
    /\ IsPlain
    /\ LET r == draw_polygon_mut(g_canvas, g_geom.pts)
       IN  Drawn("polygon", <<>>, r.calls, r.panic)

CallHollowPolygon ==
    /\ g_pc = "args"
    /\ IsPlain
    /\ LET r == draw_hallow_polygon_mut(g_canvas, g_geom.pts)
       IN  Drawn("hollow_polygon", <<>>, r.calls, r.panic)

DrawNext ==
    \/ CallLineSegment
    \/ CallFilledCircle
    \/ CallHollowCircle
    \/ CallFilledEllipse
    \/ CallHollowEllipse
    \/ CallCross
    \/ CallFilledRect
    \/ CallPolygon
    \/ CallHollowPolygon

SpecDraw == DrawInit /\ [][DrawNext]_vars

(***************************************************************************)
(* draw_text_center_mut: the scale it resolves, as a multiple num / den of *)
(* the scale it was given.  A quotient of two u32 cast to f32 is kept as   *)
(* the pair [num, den]: den = 0 is +infinity when num > 0 and NaN when     *)
(* num = 0.                                                                *)
(***************************************************************************)
MaxDim == 4

Ratio(num, den) == [num |-> num, den |-> den]
IsNaN(r) == r.den = 0 /\ r.num = 0
IsInf(r) == r.den = 0 /\ r.num > 0

\* f32::min: the smaller argument; the other one when one is NaN.
f32_min_Larger(a, b) ==
    IF IsNaN(a) THEN b
    ELSE IF IsNaN(b) THEN a
    ELSE IF IsInf(a) THEN a
    ELSE IF IsInf(b) THEN b
    ELSE IF a.num * b.den >= b.num * a.den THEN a ELSE b
f32_min(a, b) ==
    IF IsNaN(a) THEN b
    ELSE IF IsNaN(b) THEN a
    ELSE IF IsInf(a) THEN b
    ELSE IF IsInf(b) THEN a
    ELSE IF a.num * b.den <= b.num * a.den THEN a ELSE b

\* let scale = if text_raw_width > rect_width || text_raw_height > rect_height
\*     { scale.x * x_radio.min(y_radio) } else { scale }
ResolveScale(rect_width, rect_height, text_raw_width, text_raw_height) ==
    IF text_raw_width > rect_width \/ text_raw_height > rect_height
    THEN LET x_radio == Ratio(rect_width, text_raw_width)
             y_radio == Ratio(rect_height, text_raw_height)
         IN  f32_min(x_radio, y_radio)
    ELSE Ratio(1, 1)

TextInit ==
    /\ overflow_checks = TRUE
    /\ DivideIdle
    /\ ChunkIdle
    /\ RenderIdle
    /\ DrawIdle
    /\ PipelineIdle
    /\ t_pc = "args"
    /\ t_rect \in (0..MaxDim) \X (0..MaxDim)
    /\ t_raw \in (0..MaxDim) \X (0..MaxDim)
    /\ t_scale = Ratio(1, 1)

CallDrawTextCenter ==
    /\ t_pc = "args"
    /\ t_pc' = "returned"
    /\ t_scale' = ResolveScale(t_rect[1], t_rect[2], t_raw[1], t_raw[2])
    /\ UNCHANGED <<overflow_checks, t_rect, t_raw, dvars, cvars, fvars, gvars, pvars>>

TextNext == CallDrawTextCenter

SpecText == TextInit /\ [][TextNext]_vars

(***************************************************************************)
(* Properties of divide (C1 - C5, under SpecDivide).                       *)
(***************************************************************************)
\* The partitioner precondition: step > overlap >= 0 and N > overlap.
DividePre == d_step > d_overlap /\ d_overlap >= 0 /\ d_len > d_overlap
DivideReturned == d_pc = "returned" /\ DividePre
Windows == d_ret.windows
Indices(w) == w.start .. (w.end - 1)
WindowLen(w) == w.end - w.start
LastIndices(w, k) == (w.end - k) .. (w.end - 1)
FirstIndices(w, k) == w.start .. (w.start + k - 1)

RECURSIVE SumLen(_)
SumLen(ws) == IF ws = <<>> THEN 0 ELSE WindowLen(Head(ws)) + SumLen(Tail(ws))

\* ceil(a / b) for a >= 0, b > 0
CeilDiv(a, b) == (a + b - 1) \div b

\* C1: under the precondition, any two consecutive windows share exactly
\* `overlap` indices: the last `overlap` indices of window k are the first
\* `overlap` indices of window k+1, and they have no other index in common.
C1_ConsecutiveShareOverlap ==
    DivideReturned =>
        /\ ~d_ret.panic
        /\ \A k \in 1..(Len(Windows) - 1) :
              LET a == Windows[k]
                  b == Windows[k + 1]
              IN  /\ Cardinality(Indices(a) \cap Indices(b)) = d_overlap
                  /\ LastIndices(a, d_overlap) = FirstIndices(b, d_overlap)
                  /\ Indices(a) \cap Indices(b) = LastIndices(a, d_overlap)
                  /\ LastIndices(a, d_overlap) \subseteq Indices(a)
                  /\ FirstIndices(b, d_overlap) \subseteq Indices(b)

C1_Witness ==
    /\ DivideReturned
    /\ d_overlap = 2
    /\ Len(Windows) >= 3
    /\ Indices(Windows[1]) \cap Indices(Windows[2]) # {}

\* C2: under the precondition, every window is a non-empty ascending index
\* range inside 0..N-1, the windows come in increasing order of start index,
\* and their union is exactly 0..N-1 (the trailing tiles included).
C2_ContiguousOrderedCover ==
    DivideReturned =>
        /\ ~d_ret.panic
        /\ \A k \in 1..Len(Windows) :
              /\ 0 <= Windows[k].start
              /\ Windows[k].start < Windows[k].end
              /\ Windows[k].end <= d_len
        /\ \A k \in 1..(Len(Windows) - 1) : Windows[k].start < Windows[k + 1].start
        /\ UNION {Indices(Windows[k]) : k \in 1..Len(Windows)} = 0..(d_len - 1)

C2_Witness ==
    /\ DivideReturned
    /\ Len(Windows) >= 2
    /\ WindowLen(Windows[Len(Windows)]) < d_step
    /\ (d_len - 1) \in Indices(Windows[Len(Windows)])

\* C3: under the precondition, the window lengths add up to
\* N + overlap * (number of windows - 1), and the last window has at most
\* `step` tiles.
C3_SumOfLengths ==
    DivideReturned =>
        /\ Len(Windows) >= 1
        /\ SumLen(Windows) = d_len + d_overlap * (Len(Windows) - 1)
        /\ WindowLen(Windows[Len(Windows)]) <= d_step

C3_Witness ==
    /\ DivideReturned
    /\ d_overlap >= 1
    /\ Len(Windows) >= 3
    /\ SumLen(Windows) > d_len

\* C4 (as the specification states it): 10 tiles, step 3, overlap 1 give the
\* windows of lengths [3,3,3,2] starting at [0,2,4,6].
C4_Original ==
    (d_pc = "returned" /\ d_len = 10 /\ d_step = 3 /\ d_overlap = 1) =>
        /\ [k \in 1..Len(Windows) |-> WindowLen(Windows[k])] = <<3, 3, 3, 2>>
        /\ [k \in 1..Len(Windows) |-> Windows[k].start] = <<0, 2, 4, 6>>

\* C4 (amended): 10 tiles, step 3, overlap 1 give five windows, of lengths
\* [3,3,3,3,2] starting at [0,2,4,6,8].
C4_TenTilesExample ==
    (d_pc = "returned" /\ d_len = 10 /\ d_step = 3 /\ d_overlap = 1) =>
        /\ ~d_ret.panic
        /\ [k \in 1..Len(Windows) |-> WindowLen(Windows[k])] = <<3, 3, 3, 3, 2>>
        /\ [k \in 1..Len(Windows) |-> Windows[k].start] = <<0, 2, 4, 6, 8>>

C4_Witness ==
    /\ d_pc = "returned" /\ d_len = 10 /\ d_step = 3 /\ d_overlap = 1
    /\ d_variant = "BigImg"
    /\ Len(Windows) = 5

\* C5: under the precondition, divide returns ceil((N - overlap) /
\* (step - overlap)) windows, one for each start k * (step - overlap) below
\* N - overlap; for N = 10, step = 3, overlap = 1 that is five windows.
C5_WindowCount ==
    DivideReturned =>
        /\ ~d_ret.panic
        /\ Len(Windows) = CeilDiv(d_len - d_overlap, d_step - d_overlap)
        /\ {Windows[k].start : k \in 1..Len(Windows)} =
              {s \in 0..(d_len - d_overlap - 1) : s % (d_step - d_overlap) = 0}
        /\ \A k \in 1..Len(Windows) : Windows[k].start = (k - 1) * (d_step - d_overlap)
        /\ (d_len = 10 /\ d_step = 3 /\ d_overlap = 1) => Len(Windows) = 5

C5_Witness ==
    /\ DivideReturned
    /\ d_variant = "slides"
    /\ d_len = 10 /\ d_step = 3 /\ d_overlap = 1
    /\ Len(Windows) = 5
    /\ WindowLen(Windows[5]) = 2

\* C21: under the precondition, window i (counted from 0) starts at index
\* i * (step - overlap) and ends, exclusively, at min(start + step, N); every
\* window but the last has exactly `step` tiles, and a window shorter than
\* `step` is the last one.
C21_WindowBounds ==
    DivideReturned =>
        /\ ~d_ret.panic
        /\ \A k \in 1..Len(Windows) :
              LET start == (k - 1) * (d_step - d_overlap)
              IN  /\ Windows[k].start = start
                  /\ Windows[k].end = IF start + d_step <= d_len
                                      THEN start + d_step ELSE d_len
                  /\ k < Len(Windows) => WindowLen(Windows[k]) = d_step
                  /\ WindowLen(Windows[k]) < d_step => k = Len(Windows)

C21_Witness ==
    /\ DivideReturned
    /\ d_variant = "BigImg"
    /\ d_len = 9 /\ d_step = 4 /\ d_overlap = 2
    /\ Len(Windows) = 4
    /\ Windows[4] = [start |-> 6, end |-> 9]

(***************************************************************************)
(* Chunk::new (C8, under SpecChunk).                                       *)
(***************************************************************************)
\* C8: Chunk::new with a picture path that does not exist returns an error
\* of kind IoError(NotFound) and no Chunk; with an existing path it returns
\* a Chunk holding exactly the given path and caption lists.
C8_ChunkNewNotFound ==
    c_pc = "returned" =>
        IF c_args.pic_path \notin c_exists
        THEN /\ ~c_ret.ok
             /\ c_ret.kind = "IoError(NotFound)"
             /\ c_ret.value = <<>>
        ELSE /\ c_ret.ok
             /\ Len(c_ret.value) = 1
             /\ c_ret.value[1].pic_path = c_args.pic_path
             /\ c_ret.value[1].text_up = c_args.text_up
             /\ c_ret.value[1].text_down = c_args.text_down

C8_Witness ==
    /\ c_pc = "returned"
    /\ c_args.pic_path \notin c_exists
    /\ c_exists # {}
    /\ ~c_ret.ok

(***************************************************************************)
(* The builder and the run (C6, C7, C9, C10, under Spec).                  *)
(***************************************************************************)
BuildCalled == variant = "BigImg" /\ p_pc \notin {"start", "builder", "panic_setter"}
BuildReturnedOk == variant = "BigImg" /\ build_ret.ok

\* C6: a configuration that violates the partitioner precondition (N <=
\* overlap, or effective step <= overlap) is rejected by build, so every
\* BigImg that build returns, and that run and divide then read, has
\* N > overlap and step > overlap.
C6_BuildRejectsPreconditionViolation ==
    BuildReturnedOk =>
        /\ Len(chunks) > si.overlap
        /\ si.step > si.overlap

\* C7: every BigImg returned by build has pic_h <= screen height, a screen
\* width that is an exact multiple of width_chunk, and overlap * width_chunk
\* = screen width (1920 / 480 gives 4); build returns an error, before
\* anything is rendered, when pic_h > screen height or when width_chunk does
\* not divide the screen width (500 with 1920).
C7_BuildValidatesLayout ==
    /\ BuildReturnedOk =>
          /\ si = build_ret.value[1]
          /\ si.pic_h <= si.screen[2]
          /\ si.screen[1] % si.width_chunk = 0
          /\ si.overlap * si.width_chunk = si.screen[1]
          /\ (si.screen[1] = 1920 /\ si.width_chunk = 480) => si.overlap = 4
    /\ (BuildCalled /\ (\/ builder.pic_h > builder.screen[2]
                        \/ builder.screen[1] % builder.width_chunk # 0)) =>
          /\ p_pc = "build_err"
          /\ ~build_ret.ok
          /\ build_ret.kind = "BigImgBuilderError"
          /\ build_ret.value = <<>>
          /\ si = NoBigImg
          /\ frames = <<>> /\ log = <<>>

C7_Witness ==
    /\ BuildReturnedOk
    /\ si.screen = <<1920, 1080>>
    /\ si.width_chunk = 480
    /\ si.overlap = 4
    /\ builder.step # 40

\* The clip names a run of m frames is expected to produce.
ClipCover == Path(<<"c", "o", "v", "e", "r">>, "mp4")
ClipEnding == Path(<<"e", "n", "d", "i", "n", "g">>, "mp4")
ClipMid(i) == Path(<<DigitChars[(i \div 10) + 1], DigitChars[(i % 10) + 1]>>, "mp4")
ExpectedClips(m) == <<ClipCover>> \o [i \in 1..m |-> ClipMid(i - 1)] \o <<ClipEnding>>

\* C9: in every successful run over m >= 1 frames the clip list given to the
\* concat step, and written to the manifest one `file <path>` line per entry,
\* is cover, the m frame clips in increasing index, ending: m + 2 entries,
\* cover first, ending last, no clip twice.
C9_ClipListOrder ==
    (p_pc = "done" /\ run_ret.ok /\ Len(frames) >= 1) =>
        LET m == Len(frames)
        IN  /\ concat_input = ExpectedClips(m)
            /\ Len(concat_input) = m + 2
            /\ Len(manifest) = m + 2
            /\ \A k \in 1..Len(manifest) :
                  manifest[k] = [directive |-> "file", path |-> ExpectedClips(m)[k]]
            /\ concat_input[1] = ClipCover
            /\ concat_input[m + 2] = ClipEnding
            /\ \A j, k \in 1..Len(concat_input) :
                  j # k => concat_input[j] # concat_input[k]

C9_Witness ==
    /\ p_pc = "done"
    /\ run_ret.ok
    /\ variant = "BigImg"
    /\ Len(frames) >= 11
    /\ Len(concat_input) = Len(frames) + 2
    /\ concat_input[12] = Path(<<"1", "0">>, "mp4")

\* C10: once the rendering, saving or encoding of a still or of a frame clip
\* has failed, run has returned that error, nothing was rendered, saved or
\* encoded after the failing step, and the concat step was not invoked (no
\* manifest was written either).
C10_TerminalOnFirstFailure ==
    \A k \in 1..Len(log) :
        (log[k].op # "concat" /\ log[k].outcome = "err") =>
            /\ k = Len(log)
            /\ p_pc = "done"
            /\ ~run_ret.ok
            /\ run_ret.kind \in {"Other", "ImageError", "IoError"}
            /\ manifest = <<>>
            /\ concat_input = <<>>
            /\ rm_attempted = <<>>
            /\ \A j \in 1..Len(log) : log[j].op # "concat"

C10_Witness ==
    /\ p_pc = "done"
    /\ Len(log) >= 6
    /\ log[Len(log)].outcome = "err"
    /\ log[Len(log)].op = "encode_mid"
    /\ log[Len(log)].index = 1
    /\ Len(frames) >= 3

(***************************************************************************)
(* The concat step, the cleanup and the encoder (C11 - C13, under Spec).   *)
(***************************************************************************)
ConcatAttempted == \E k \in 1..Len(log) : log[k].op = "concat"
ConcatFailed == \E k \in 1..Len(log) : log[k].op = "concat" /\ log[k].outcome = "err"
AllStepsOk ==
    /\ ConcatAttempted
    /\ \A k \in 1..Len(log) : log[k].outcome = "ok"
IsPrefix(a, b) == Len(a) <= Len(b) /\ a = SubSeq(b, 1, Len(a))
Stills(clips) == {with_extension(clips[k], "png") : k \in 1..Len(clips)}
Clips(clips) == {clips[k] : k \in 1..Len(clips)}
Attempted == {rm_attempted[k] : k \in 1..Len(rm_attempted)}

\* C11: once the concat step has been attempted and combain has returned,
\* the deletion of the manifest, of every still and of every frame clip has
\* been attempted, whether the concat step succeeded or failed.
C11_CleanupRegardlessOfConcat ==
    (p_pc = "done" /\ ConcatAttempted) =>
        /\ list_file \in Attempted
        /\ Stills(results) \subseteq Attempted
        /\ Clips(results) \subseteq Attempted

\* C12: when every render, save, encode step and the concat step succeeded,
\* each deletion of the cleanup is attempted in turn whatever the outcome of
\* the deletions before it, and run returns Ok whether or not deletions
\* failed.
C12_CleanupBestEffort ==
    AllStepsOk =>
        /\ p_pc \in {"cleanup", "done"}
        /\ IsPrefix(rm_attempted, CleanupList(results))
        /\ p_pc = "cleanup" => run_ret = NoResult
        /\ p_pc = "done" =>
              /\ run_ret = Ok(Unit)
              /\ rm_attempted = CleanupList(results)
              /\ Attempted = {list_file} \cup Clips(results) \cup Stills(results)

C12_Witness ==
    /\ p_pc = "done"
    /\ AllStepsOk
    /\ rm_failed
    /\ run_ret.ok
    /\ Len(frames) >= 2
    /\ Len(rm_attempted) = 2 * (Len(frames) + 2) + 1

Returned(fn) == f_pc = "returned" /\ f_fn = fn

\* C14: build returns an error, and no BigImg, when the tile list is empty;
\* combain_chunk and combain_slides return an error, and no image, when the
\* frame is empty; none of them panics, and a non-empty input is not
\* rejected as empty.
C14_EmptyInputRejected ==
    /\ (Returned("build") /\ f_tiles = <<>>) =>
          f_ret = [ret |-> Err("BigImgBuilderError"), panic |-> FALSE]
    /\ (Returned("combain_chunk") /\ f_tiles = <<>>) =>
          f_ret = [ret |-> Err("Other"), panic |-> FALSE]
    /\ (Returned("combain_slides") /\ f_tiles = <<>>) =>
          f_ret = [ret |-> Err("Other"), panic |-> FALSE]
    /\ (f_pc = "returned" /\ f_fn # "draw_data" /\ f_tiles # <<>>
        /\ ~f_ret.panic /\ ~f_ret.ret.ok) =>
          f_ret.ret.kind \in {"BigImgBuilderError", "IoError", "InvalidFont", "ImageError"}
          /\ (f_ret.ret.kind = "BigImgBuilderError" => f_fn = "build")

C14_Witness ==
    /\ Returned("combain_chunk")
    /\ f_tiles = <<>>
    /\ ~f_ret.panic
    /\ f_ret.ret.kind = "Other"

HasEmptyCaptions(tile) == tile.text_up = <<>> \/ tile.text_down = <<>>

\* C15: draw_data on a tile whose upper or lower caption list is empty
\* returns an error; it does not panic by dividing the caption-region
\* height by zero.
C15_EmptyCaptionsGuarded ==
    (Returned("draw_data") /\ HasEmptyCaptions(f_tiles[1])) =>
        /\ ~f_ret.panic
        /\ ~f_ret.ret.ok

(***************************************************************************)
(* The rasterizer (C16 - C19, under SpecDraw).                             *)
(***************************************************************************)
DrawReturned(op) == g_pc = "returned" /\ g_op = op
Written == {g_calls[k] : k \in 1..Len(g_calls)}
OnCanvas == (0..(g_canvas[1] - 1)) \X (0..(g_canvas[2] - 1))
AllCallsInBounds ==
    \A k \in 1..Len(g_calls) : InBounds(g_canvas, g_calls[k][1], g_calls[k][2])

\* C16: draw_filled_rect_mut writes no pixel outside the canvas, whatever the
\* rect (outside, partly outside, negative origin, zero area), and the pixels
\* it writes are exactly those of the canvas that lie inside the rect.
C16_FilledRectClipped ==
    DrawReturned("filled_rect") =>
        LET left == g_geom.pts[1][1]
            top == g_geom.pts[1][2]
        IN  /\ ~g_panic
            /\ AllCallsInBounds
            /\ Written = {pt \in OnCanvas :
                            /\ left <= pt[1] /\ pt[1] < left + g_geom.r1
                            /\ top <= pt[2] /\ pt[2] < top + g_geom.r2}

C16_Witness ==
    /\ DrawReturned("filled_rect")
    /\ g_geom.pts[1] = <<-1, 1>>
    /\ g_geom.r1 = 2 /\ g_geom.r2 = 2
    /\ g_canvas = <<2, 2>>
    /\ Written = {<<0, 1>>}

RasterOps ==
    {"line", "filled_circle", "hollow_circle", "filled_ellipse",
     "hollow_ellipse", "polygon", "hollow_polygon", "cross"}

\* C17: no line, circle, ellipse, polygon or cross operation calls
\* draw_pixel with a coordinate outside the canvas, whatever the geometry and
\* the canvas size, a canvas of width or height 0 included.
C17_RasterizerStaysInBounds ==
    (g_pc = "returned" /\ g_op \in RasterOps) => AllCallsInBounds

\* C18: for a segment whose start and end are the same point the iterator
\* yields exactly that one point, and draw_line_segment_mut makes one
\* draw_pixel call when the point is on the canvas and none otherwise.
C18_DegenerateLine ==
    (DrawReturned("line") /\ g_geom.pts[1] = g_geom.pts[2]) =>
        /\ g_points = <<g_geom.pts[1]>>
        /\ Len(g_calls) <= 1
        /\ g_calls = IF g_geom.pts[1] \in OnCanvas THEN <<g_geom.pts[1]>> ELSE <<>>

C18_Witness ==
    /\ DrawReturned("line")
    /\ g_geom.pts[1] = g_geom.pts[2]
    /\ g_geom.pts[1] = <<1, 0>>
    /\ g_calls = <<<<1, 0>>>>

IsRing(poly) == poly # <<>> /\ poly[1] = poly[Len(poly)]

\* C19 (as the specification states it): the polygon fill fails, and writes
\* no pixel, when the vertex list is empty and when its first vertex equals
\* its last.
C19_Original ==
    (DrawReturned("polygon") /\ (g_geom.pts = <<>> \/ IsRing(g_geom.pts))) =>
        /\ g_panic
        /\ g_calls = <<>>

\* C19 (amended): the polygon fill and the hollow polygon panic, and write
\* no pixel, when the first vertex equals the last (a single vertex
\* included); on an empty vertex list they return without failing and write
\* no pixel; the hollow polygon panics in no other case.
C19_PolygonRejectsClosedRing ==
    (g_pc = "returned" /\ g_op \in {"polygon", "hollow_polygon"}) =>
        /\ IsRing(g_geom.pts) => (g_panic /\ g_calls = <<>>)
        /\ g_geom.pts = <<>> => (~g_panic /\ g_calls = <<>>)
        /\ (g_op = "hollow_polygon" /\ g_panic) => IsRing(g_geom.pts)

C19_Witness ==
    /\ DrawReturned("polygon")
    /\ Len(g_geom.pts) = 3
    /\ IsRing(g_geom.pts)
    /\ g_geom.pts[1] \in OnCanvas
    /\ g_geom.pts[2] \in OnCanvas
    /\ g_panic

(***************************************************************************)
(* The text scale (C20, under SpecText).                                   *)
(***************************************************************************)
Fits == t_raw[1] <= t_rect[1] /\ t_raw[2] <= t_rect[2]
\* the scale is at most the quotient n / d (d > 0)
AtMost(scale, n, d) == scale.num * d <= n * scale.den

\* C20: the scale draw_text_center_mut draws at is max_scale when the raw
\* block is no wider and no higher than the rect; otherwise it is max_scale
\* times the smaller of rect.width / raw_width and rect.height / raw_height,
\* which is strictly below max_scale.  It is never above max_scale.
C20_TextScaleNeverAboveMax ==
    t_pc = "returned" =>
        /\ t_scale.den > 0
        /\ t_scale.num <= t_scale.den
        /\ Fits => t_scale = Ratio(1, 1)
        /\ ~Fits =>
              /\ t_scale.num < t_scale.den
              /\ t_scale \in {Ratio(t_rect[1], t_raw[1]), Ratio(t_rect[2], t_raw[2])}
              /\ t_raw[1] > 0 => AtMost(t_scale, t_rect[1], t_raw[1])
              /\ t_raw[2] > 0 => AtMost(t_scale, t_rect[2], t_raw[2])

C20_Witness ==
    /\ t_pc = "returned"
    /\ t_raw = <<4, 3>>
    /\ t_rect = <<3, 1>>
    /\ t_scale = Ratio(1, 3)

(***************************************************************************)
(* The scroll clips and the crops of a run (C22 - C24, under Spec).        *)
(***************************************************************************)
\* The partitioner precondition on the configuration run reads.
PartitionerPre == Len(chunks) > si.overlap /\ si.step > si.overlap

\* C22: under the partitioner precondition every frame divide produced has
\* more tiles than the overlap, so no scroll clip is refused for an
\* underflowing `len - overlap`, and the duration asked of the encoder for a
\* frame of n tiles is (n - overlap) * video_swip_speed + 1 with
\* n - overlap >= 1.
C22_ScrollDuration ==
    (frames # <<>> /\ PartitionerPre) =>
        /\ \A k \in 1..Len(frames) : FrameLen(frames[k]) > si.overlap
        /\ \A k \in 1..Len(scrolls) :
              LET n == FrameLen(frames[scrolls[k].index + 1])
              IN  /\ scrolls[k].len = n
                  /\ n - si.overlap >= 1
                  /\ scrolls[k].run_seconds
                        = (n - si.overlap) * si.video_swip_speed + 1
        /\ \A k \in 1..Len(log) :
              (log[k].op = "encode_mid" /\ log[k].outcome = "panic")
                  => si.video_swip_speed = 0

C22_Witness ==
    /\ variant = "BigImg"
    /\ PartitionerPre
    /\ si.overlap = 2
    /\ si.video_swip_speed = 7
    /\ Len(frames) = 4
    /\ Len(scrolls) = 4
    /\ scrolls[1].len = 5 /\ scrolls[1].run_seconds = 22
    /\ scrolls[4].len = 3 /\ scrolls[4].run_seconds = 8

\* C23: scrolling never jumps between frames: for every configuration build
\* accepted and every frame of n tiles, the offset reached after
\* (n - overlap) * video_swip_speed seconds at the speed handed to the
\* encoder (width_chunk / video_swip_speed in u32 arithmetic) is exactly
\* (n - overlap) * width_chunk pixels, with overlap * width_chunk the screen
\* width.
C23_ScrollReachesLastScreenful ==
    (BuildReturnedOk /\ PartitionerPre) =>
        /\ si.overlap * si.width_chunk = si.screen[1]
        /\ \A k \in 1..Len(scrolls) :
              (scrolls[k].len - si.overlap) * si.video_swip_speed * scrolls[k].speed
                 = (scrolls[k].len - si.overlap) * si.width_chunk

\* C24: in a run of a BigImg the cover is cropped from the frame with index
\* 0 only and the ending from the last frame only, a run that completes has
\* cropped both, and both crops lie inside the rendered frame: the crop
\* [x, x + screen width) is within [0, w), and `w - screen width` neither
\* underflows nor panics.
C24_StillsInsideFrame ==
    variant = "BigImg" =>
        /\ \A k \in 1..Len(crops) :
              /\ crops[k].kind = "cover" => crops[k].index = 0 /\ crops[k].x = 0
              /\ crops[k].kind = "ending" =>
                    /\ crops[k].index = Len(frames) - 1
                    /\ crops[k].x = crops[k].image_w - crops[k].width
              /\ 0 <= crops[k].x
              /\ crops[k].x + crops[k].width <= crops[k].image_w
              /\ \A j \in 1..Len(crops) : j # k => crops[j].kind # crops[k].kind
        /\ \A k \in 1..Len(log) :
              log[k].op = "save_ending" => log[k].outcome # "panic"
        /\ (p_pc = "done" /\ run_ret.ok /\ frames # <<>>) =>
              /\ \E k \in 1..Len(crops) : crops[k].kind = "cover"
              /\ \E k \in 1..Len(crops) : crops[k].kind = "ending"

(***************************************************************************)
(* The layout and the scroll speed of an accepted configuration (C25, C28, *)
(* under Spec).                                                            *)
(***************************************************************************)
\* The margin draw_data subtracts from text_down_h ((text_down_h - 30) / len).
TextDownMargin == 30

\* C25: for every configuration build accepted the three vertical regions
\* partition the screen: text_down_h = screen height - pic_h - text_up_h is
\* computed without unsigned underflow (no panic in build, no wrapped
\* value), pic_h + text_up_h + text_down_h is the screen height, and
\* text_down_h is at least the margin of 30 that draw_data subtracts from it.
C25_VerticalRegionsPartitionScreen ==
    /\ BuildReturnedOk =>
          /\ 0 <= si.text_down_h
          /\ si.pic_h + si.text_up_h + si.text_down_h = si.screen[2]
          /\ TextDownMargin <= si.text_down_h
    /\ p_pc # "panic_build"

\* C28: every configuration build accepted has video_swip_speed >= 1, and a
\* builder never holds a scroll speed of 0 (the setter rejects it), so no
\* scroll clip panics on the division width_chunk / video_swip_speed.
C28_ScrollSpeedPositive ==
    /\ BuildReturnedOk => si.video_swip_speed >= 1
    /\ variant = "BigImg" => builder.video_swip_speed >= 1
    /\ \A k \in 1..Len(log) :
          (variant = "BigImg" /\ log[k].op = "encode_mid" /\ log[k].outcome = "panic")
              => si.video_swip_speed # 0

(***************************************************************************)
(* The points of BresenhamLineIter (C26, C30, under SpecDraw).             *)
(***************************************************************************)
PointSet(points) == {points[k] : k \in 1..Len(points)}

\* C26: for integer endpoints BresenhamLineIter emits exactly
\* |delta on the driving axis| + 1 points, the driving axis being the one
\* with the larger absolute delta; from one emitted point to the next the
\* driving coordinate increases by exactly 1 and the secondary coordinate
\* changes by 0 or by one unit step that is the same for the whole segment.
C26_BresenhamUnitSteps ==
    DrawReturned("line") =>
        LET P == g_geom.pts[1]
            Q == g_geom.pts[2]
            steep == Abs(Q[2] - P[2]) > Abs(Q[1] - P[1])
            driving(pt) == IF steep THEN pt[2] ELSE pt[1]
            secondary(pt) == IF steep THEN pt[1] ELSE pt[2]
            n == Len(g_points)
        IN  /\ n = Max(Abs(Q[1] - P[1]), Abs(Q[2] - P[2])) + 1
            /\ \A k \in 1..(n - 1) :
                  driving(g_points[k + 1]) = driving(g_points[k]) + 1
            /\ \E unit \in {1, -1} :
                  \A k \in 1..(n - 1) :
                      secondary(g_points[k + 1]) - secondary(g_points[k]) \in {0, unit}

C26_Witness ==
    /\ DrawReturned("line")
    /\ g_geom.pts = <<<<1, 3>>, <<0, -1>>>>
    /\ Len(g_points) = 5
    /\ g_points[1] = <<0, -1>>
    /\ g_points[3] = <<0, 1>>
    /\ g_points[4] = <<1, 2>>
    /\ g_points[5] = <<1, 3>>

\* C30: for integer endpoints P and Q the point sequence of
\* BresenhamLineIter starts at one endpoint and ends at the other, so it
\* contains both, and the set of points emitted for (P, Q) is the set emitted
\* for (Q, P).
C30_BresenhamEndpointsAndSymmetry ==
    DrawReturned("line") =>
        LET P == g_geom.pts[1]
            Q == g_geom.pts[2]
        IN  /\ g_points # <<>>
            /\ {g_points[1], g_points[Len(g_points)]} = {P, Q}
            /\ P \in PointSet(g_points) /\ Q \in PointSet(g_points)
            /\ PointSet(g_points) = PointSet(BresenhamPoints(Q, P))

C30_Witness ==
    /\ DrawReturned("line")
    /\ g_geom.pts = <<<<3, 1>>, <<0, 0>>>>
    /\ g_points[1] = <<0, 0>>
    /\ g_points[4] = <<3, 1>>
    /\ PointSet(BresenhamPoints(<<0, 0>>, <<3, 1>>)) = PointSet(g_points)

(***************************************************************************)
(* The intersections of the polygon fill (C29, under SpecDraw).            *)
(***************************************************************************)
\* The scan lines of the grid, those outside every canvas included.
ScanLineYs == (-2)..(MaxCoord + 1)

\* C29: for every vertex list whose first and last vertex differ and every
\* scan line y, the number of x-intersections the polygon fill collects is
\* even, so the fill never panics on a missing second endpoint when it pairs
\* the sorted intersections.
C29_IntersectionsPairUp ==
    (DrawReturned("polygon") /\ g_geom.pts # <<>> /\ ~IsRing(g_geom.pts)) =>
        /\ ~g_panic
        /\ \A y \in ScanLineYs :
              Len(Intersections(Edges(g_geom.pts), y)) % 2 = 0

C29_Witness ==
    /\ DrawReturned("polygon")
    /\ g_canvas = <<2, 2>>
    /\ g_geom.pts = <<<<0, 0>>, <<2, 0>>, <<2, 2>>, <<0, 2>>>>
    /\ ~g_panic
    /\ Len(Intersections(Edges(g_geom.pts), 0)) = 4
    /\ Len(Intersections(Edges(g_geom.pts), 1)) = 2
    /\ g_calls # <<>>

(***************************************************************************)
(* The step clamp of build and the single frame (C27, under Spec).         *)
(***************************************************************************)
\* run has called divide.
RunStarted ==
    p_pc \in {"render", "save_cover", "encode_cover", "save_mid", "encode_mid",
              "save_ending", "encode_ending", "write_list", "concat", "cleanup",
              "done", "panic_run"}

\* build has just returned Ok from the builder's state.
BuildStep == p_pc = "builder" /\ p_pc' = "built"

\* With N tiles, step = N and N > overlap: one frame holding all the tiles,
\* first and last at once, and the clips cover, 00, ending.
SingleFrame ==
    (BuildReturnedOk /\ si.step = Len(chunks) /\ Len(chunks) > si.overlap
        /\ RunStarted) =>
        /\ frames = <<[start |-> 0, end |-> Len(chunks)]>>
        /\ IsFirst(0) /\ IsLast(0, Len(frames))
        /\ \A k \in 1..Len(crops) : crops[k].index = 0
        /\ \A k \in 1..Len(results) :
              results[k] = <<ClipCover, ClipMid(0), ClipEnding>>[k]
        /\ Len(results) <= 3
        /\ (p_pc = "done" /\ run_ret.ok) =>
              /\ results = <<ClipCover, ClipMid(0), ClipEnding>>
              /\ concat_input = <<ClipCover, ClipMid(0), ClipEnding>>

\* C27: a build that succeeds clamps step to the tile count, step =
\* min(step, N), in the builder and in the BigImg it returns; consequently, when N is at most the
\* configured step and N > overlap, divide yields exactly one frame with all
\* N tiles, that frame is both first and last, and the clip list of the run
\* is exactly cover, 00, ending.
C27_StepClampSingleFrame ==
    /\ [][BuildStep =>
             /\ builder'.step = Min(builder.step, Len(chunks))
             /\ si'.step = Min(builder.step, Len(chunks))]_vars
    /\ [](BuildReturnedOk => si.step <= Len(chunks))
    /\ []SingleFrame

C27_Witness ==
    /\ p_pc = "done"
    /\ run_ret.ok
    /\ variant = "BigImg"
    /\ Len(chunks) = 7
    /\ si.step = 7
    /\ si.overlap = 4
    /\ frames = <<[start |-> 0, end |-> 7]>>
    /\ Len(crops) = 2
    /\ concat_input = <<ClipCover, ClipMid(0), ClipEnding>>

====
